---- MODULE Spec2Model ----
(***************************************************************************)
(* Model of knx/proto/tpdu.go: the TPDU record, its decoder ReadFrom and   *)
(* its encoder WriteTo, operating on an in-memory byte stream that serves  *)
(* both as io.Reader and as io.Writer (a bytes.Buffer).                    *)
(***************************************************************************)
EXTENDS Integers, Sequences, FiniteSets, TLC

VARIABLES tpdu, stream, err, hist, sent, wire, input, prev

vars == <<tpdu, stream, err, hist, sent, wire, input, prev>>

MaxByte == 255

(* ---------------------------- bounds ----------------------------------- *)
MaxOps == 2
MaxLen == 3
MaxPacketType == 5
MaxSeqNumber == 31
MaxControl == 4
MaxInfo == 16

(* ------------------------ uint8 arithmetic ------------------------------ *)
Pow2(n) == <<1, 2, 4, 8, 16, 32, 64, 128, 256>>[n + 1]

Bit(x, i) == (x \div Pow2(i)) % 2

RECURSIVE AndFrom(_, _, _)
AndFrom(x, y, i) ==
    IF i > 7 THEN 0
    ELSE Bit(x, i) * Bit(y, i) * Pow2(i) + AndFrom(x, y, i + 1)

BitAnd(x, y) == AndFrom(x, y, 0)

RECURSIVE OrFrom(_, _, _)
OrFrom(x, y, i) ==
    IF i > 7 THEN 0
    ELSE (IF Bit(x, i) + Bit(y, i) > 0 THEN Pow2(i) ELSE 0) + OrFrom(x, y, i + 1)

BitOr(x, y) == OrFrom(x, y, 0)

Shl(x, n) == (x * Pow2(n)) % 256

Shr(x, n) == x \div Pow2(n)

(* --------------------------- constants ---------------------------------- *)
UnnumberedDataPacket == 0
NumberedDataPacket == 1
UnnumberedControlPacket == 2
NumberedControlPacket == 3

ErrNil == "nil"
ErrTruncatedInput == "TruncatedInput"
ErrDataUnitTooShort == "Data segment of the TPDU is too short"
ErrUnreachable == "Unreachable"

IsControl(pt) == pt \in {UnnumberedControlPacket, NumberedControlPacket}
IsData(pt) == pt \in {UnnumberedDataPacket, NumberedDataPacket}

TPDU(pt, seq, ctl, info, data) ==
    [PacketType |-> pt, SeqNumber |-> seq, Control |-> ctl, Info |-> info, Data |-> data]

ZeroTPDU == TPDU(0, 0, 0, 0, <<>>)

(* ----------------------------- decoder ---------------------------------- *)
ReadSequence(r) ==
    IF Len(r) < 1
    THEN [err |-> ErrTruncatedInput, head |-> 0, rest |-> r]
    ELSE [err |-> ErrNil, head |-> Head(r), rest |-> Tail(r)]

PacketTypeOfLowBit(head) == BitAnd(Shr(head, 6), 1)
PacketTypeOf(head) == BitAnd(Shr(head, 6), 3)

SeqNumberOfNarrow(head) == BitAnd(Shr(head, 2), 7)
SeqNumberOf(head) == BitAnd(Shr(head, 2), 15)

ReadControlStale(t, head) ==
    TPDU(PacketTypeOf(head), SeqNumberOf(head), BitAnd(head, 3), t.Info, t.Data)
ReadControl(t, head) ==
    TPDU(PacketTypeOf(head), SeqNumberOf(head), BitAnd(head, 3), 0, <<>>)

TooShortOffByOne(len) == len < 2
TooShort(len) == len < 1

InfoOf(head, d0) == BitOr(Shl(BitAnd(head, 3), 2), BitAnd(Shr(d0, 6), 3))

AppDataKeepFirst(data) ==
    IF Len(data) > 1 THEN data ELSE <<BitAnd(data[1], 63)>>
AppDataNoMask(data) ==
    IF Len(data) > 1 THEN Tail(data) ELSE <<data[1]>>
AppData(data) ==
    IF Len(data) > 1 THEN Tail(data) ELSE <<BitAnd(data[1], 63)>>

ReadData(head, data) ==
    TPDU(PacketTypeOf(head), SeqNumberOf(head), 0, InfoOf(head, data[1]), AppData(data))

ReadFromOutcome(t, r) ==
    LET rs == ReadSequence(r) IN
    IF rs.err # ErrNil
    THEN [err |-> rs.err, tpdu |-> t, rest |-> rs.rest]
    ELSE LET head == rs.head
             packetType == PacketTypeOf(head)
         IN  IF IsControl(packetType)
             THEN [err |-> ErrNil, tpdu |-> ReadControl(t, head), rest |-> rs.rest]
             ELSE IF IsData(packetType)
             THEN IF TooShort(Len(rs.rest))
                  THEN [err |-> ErrDataUnitTooShort, tpdu |-> t, rest |-> <<>>]
                  ELSE [err |-> ErrNil, tpdu |-> ReadData(head, rs.rest), rest |-> <<>>]
             ELSE [err |-> ErrUnreachable, tpdu |-> t, rest |-> rs.rest]

(* ----------------------------- encoder ---------------------------------- *)
HeaderByteNoSeqMask(t) ==
    BitOr(Shl(BitAnd(t.PacketType, 3), 6), Shl(t.SeqNumber, 2))
HeaderByte(t) ==
    BitOr(Shl(BitAnd(t.PacketType, 3), 6), Shl(BitAnd(t.SeqNumber, 15), 2))

ControlHeaderLowBit(b0, t) == BitOr(b0, BitAnd(t.Control, 1))
ControlHeader(b0, t) == BitOr(b0, BitAnd(t.Control, 3))

DataHeader(b0, t) == BitOr(b0, BitAnd(Shr(t.Info, 2), 3))

FirstDataByteNoInfo(d, info) == BitAnd(d, 63)
FirstDataByte(d, info) == BitOr(BitAnd(d, 63), Shl(BitAnd(info, 3), 6))

WriteToBytes(t) ==
    LET b0 == HeaderByte(t) IN
    IF IsControl(t.PacketType)
    THEN <<ControlHeader(b0, t)>>
    ELSE IF IsData(t.PacketType)
    THEN IF Len(t.Data) > 0
         THEN <<DataHeader(b0, t)>>
              \o [t.Data EXCEPT ![1] = FirstDataByte(@, t.Info)]
         ELSE <<DataHeader(b0, t), Shl(BitAnd(t.Info, 3), 6)>>
    ELSE <<b0>>

(* ------------------------- input domains -------------------------------- *)
Bytes == 0..MaxByte

SampleBytes == {0, 37, 64, 101, 171, 255}

TailBytes == {0, 171}

HeaderSamples == {0, 2, 53, 117, 130, 141, 255}

RECURSIVE SeqsOfLen(_, _)
SeqsOfLen(S, n) ==
    IF n = 0 THEN {<<>>}
    ELSE {<<x>> \o s : x \in S, s \in SeqsOfLen(S, n - 1)}

Tails == UNION {SeqsOfLen(TailBytes, n) : n \in 1..(MaxLen - 1)}

LongPayloads == {<<b>> \o t : b \in SampleBytes, t \in Tails}

ShortPayloads == {<<>>} \cup {<<b>> : b \in Bytes}

SampleSeqNumbers == {0, 13, MaxSeqNumber}

SampleInfos == {0, 5, 10, 15}

\* every sequence number and control value, for each packet type
FieldTPDUs ==
    {TPDU(pt, seq, ctl, info, data) :
        pt \in 0..MaxPacketType, seq \in 0..MaxSeqNumber, ctl \in 0..MaxControl,
        info \in {0, 5}, data \in {<<>>, <<200, 171>>}}

\* every service code, for each packet type
InfoTPDUs ==
    {TPDU(pt, seq, ctl, info, data) :
        pt \in 0..MaxPacketType, seq \in SampleSeqNumbers, ctl \in {0, 2},
        info \in 0..MaxInfo, data \in {<<>>, <<200, 171>>}}

\* every short payload, and long payloads, for data packets
PayloadTPDUs ==
    {TPDU(pt, 13, 0, info, data) :
        pt \in {UnnumberedDataPacket, NumberedDataPacket}, info \in SampleInfos,
        data \in ShortPayloads}
    \cup
    {TPDU(pt, 13, 0, info, data) :
        pt \in {UnnumberedDataPacket, NumberedDataPacket}, info \in 0..15,
        data \in {<<b>> : b \in SampleBytes} \cup LongPayloads}

WireInputs ==
    {<<>>}
    \cup {<<h>> : h \in Bytes}
    \cup {<<h, c>> : h \in Bytes, c \in SampleBytes}
    \cup {<<h, c>> : h \in HeaderSamples, c \in Bytes}
    \cup {<<h, c>> \o t : h \in HeaderSamples, c \in SampleBytes, t \in Tails}

DirtyTPDU == TPDU(NumberedDataPacket, 9, 3, 11, <<7, 8>>)

(* --------------------------- state machine ------------------------------ *)
Init ==
    /\ \/ /\ stream = <<>>
          /\ tpdu \in FieldTPDUs \cup InfoTPDUs \cup PayloadTPDUs
       \/ /\ stream \in WireInputs
          /\ tpdu \in {ZeroTPDU, DirtyTPDU}
    /\ err = "none"
    /\ hist = <<>>
    /\ sent = ZeroTPDU
    /\ wire = <<>>
    /\ input = <<>>
    /\ prev = ZeroTPDU

ReadFrom ==
    /\ Len(hist) < MaxOps
    /\ LET out == ReadFromOutcome(tpdu, stream) IN
        /\ tpdu' = out.tpdu
        /\ stream' = out.rest
        /\ err' = out.err
    /\ input' = stream
    /\ prev' = tpdu
    /\ hist' = Append(hist, "ReadFrom")
    /\ UNCHANGED <<sent, wire>>

WriteTo ==
    /\ Len(hist) < MaxOps
    /\ LET buffer == WriteToBytes(tpdu) IN
        /\ stream' = stream \o buffer
        /\ wire' = buffer
    /\ err' = ErrNil
    /\ sent' = tpdu
    /\ hist' = Append(hist, "WriteTo")
    /\ UNCHANGED <<tpdu, input, prev>>

Next == ReadFrom \/ WriteTo

Spec == Init /\ [][Next]_vars

(* ------------------------ auxiliary predicates -------------------------- *)
LastOp == IF Len(hist) = 0 THEN "none" ELSE hist[Len(hist)]

PrevOp == IF Len(hist) < 2 THEN "none" ELSE hist[Len(hist) - 1]

\* the record `sent` was encoded and the emitted bytes were then decoded
RoundTrip == LastOp = "ReadFrom" /\ PrevOp = "WriteTo" /\ input = wire

\* the bytes `input` were decoded and the resulting record was then encoded
WireTrip == LastOp = "WriteTo" /\ PrevOp = "ReadFrom"

HeaderKind(b) == b \div 64

Masked(t) ==
    [t EXCEPT !.SeqNumber = @ % 16, !.Control = @ % 4, !.Info = @ % 16]

(* ------------------------------ claims ---------------------------------- *)

\* C1 (as stated): encoding a control TPDU with sequence_number in 0..15 and
\* control in 0..3 and decoding the emitted bytes succeeds and returns a TPDU
\* equal to the original in every field.
C1_EveryFieldEqual ==
    (RoundTrip /\ IsControl(sent.PacketType)
        /\ sent.SeqNumber \in 0..15 /\ sent.Control \in 0..3)
    => (err = ErrNil /\ tpdu = sent)

\* C1 (amended): encoding a control TPDU with sequence_number in 0..15 and
\* control in 0..3 and decoding the emitted bytes succeeds and returns the
\* original packet_kind, sequence_number and control, with service_code 0
\* and an empty payload.
C1_ControlRoundTrip ==
    (RoundTrip /\ IsControl(sent.PacketType)
        /\ sent.SeqNumber \in 0..15 /\ sent.Control \in 0..3)
    => (err = ErrNil /\ tpdu = [sent EXCEPT !.Info = 0, !.Data = <<>>])

C1_Witness ==
    /\ RoundTrip
    /\ sent.PacketType = NumberedControlPacket
    /\ sent.SeqNumber = 15 /\ sent.Control = 3
    /\ sent.Info = 5 /\ sent.Data # <<>>
    /\ tpdu = TPDU(NumberedControlPacket, 15, 3, 0, <<>>)

\* C2 (as stated): for a data TPDU with service_code in 0..15 and a payload of
\* length 0 or 1 (any byte value), decode after encode succeeds, returns the
\* same service_code, the same payload when its length is 1, and [0] when the
\* payload is empty.
C2_ShortPayloadEqual ==
    (RoundTrip /\ IsData(sent.PacketType)
        /\ sent.Info \in 0..15 /\ Len(sent.Data) <= 1)
    => /\ err = ErrNil
       /\ tpdu.Info = sent.Info
       /\ Len(sent.Data) = 1 => tpdu.Data = sent.Data
       /\ Len(sent.Data) = 0 => tpdu.Data = <<0>>

\* C2 (amended): as above, but a one-byte payload comes back as the single
\* byte (original byte mod 64), which is the original payload exactly when
\* the byte is in 0..63.
C2_ShortRoundTrip ==
    (RoundTrip /\ IsData(sent.PacketType)
        /\ sent.Info \in 0..15 /\ Len(sent.Data) <= 1)
    => /\ err = ErrNil
       /\ tpdu.Info = sent.Info
       /\ Len(sent.Data) = 1 => tpdu.Data = <<sent.Data[1] % 64>>
       /\ Len(sent.Data) = 0 => tpdu.Data = <<0>>

C2_Witness ==
    /\ RoundTrip
    /\ IsData(sent.PacketType)
    /\ sent.Info = 15
    /\ sent.Data = <<171>>
    /\ tpdu.Data = <<43>>

\* C3: for a data TPDU with service_code in 0..15 and a payload of length
\* n >= 2, decode after encode succeeds, returns the same service_code and
\* returns the original payload without its first byte.
C3_LongRoundTrip ==
    (RoundTrip /\ IsData(sent.PacketType)
        /\ sent.Info \in 0..15 /\ Len(sent.Data) >= 2)
    => /\ err = ErrNil
       /\ tpdu.Info = sent.Info
       /\ tpdu.Data = Tail(sent.Data)
       /\ Len(tpdu.Data) = Len(sent.Data) - 1

C3_Witness ==
    /\ RoundTrip
    /\ sent.PacketType = NumberedDataPacket
    /\ sent.Info = 10
    /\ Len(sent.Data) = MaxLen
    /\ sent.Data[1] = 255
    /\ tpdu.Data = Tail(sent.Data)

\* C4: for a TPDU with packet_kind in 0..3, WriteTo emits the bytes it emits
\* for the same TPDU with sequence_number mod 16, control mod 4 and
\* service_code mod 16, and returns no error.
C4_EncodeMasks ==
    (LastOp = "WriteTo" /\ sent.PacketType \in 0..3)
    => /\ wire = WriteToBytes(Masked(sent))
       /\ wire[1] = (sent.PacketType * 64) + ((sent.SeqNumber % 16) * 4)
                    + (IF IsControl(sent.PacketType)
                       THEN sent.Control % 4
                       ELSE (sent.Info % 16) \div 4)
       /\ err = ErrNil

C4_Witness ==
    /\ LastOp = "WriteTo"
    /\ sent.PacketType = NumberedControlPacket
    /\ sent.SeqNumber = 31
    /\ sent.Control = 4
    /\ wire = <<252>>

\* C5: ReadFrom fails with the truncated-input error exactly when the input is
\* empty, with ErrDataUnitTooShort exactly when the input is a single byte
\* with a data-variant header, succeeds otherwise, and never returns
\* "Unreachable".
C5_DecodeErrors ==
    LastOp = "ReadFrom"
    => /\ err = ErrTruncatedInput <=> Len(input) = 0
       /\ err = ErrDataUnitTooShort
            <=> (Len(input) = 1 /\ HeaderKind(input[1]) \in {0, 1})
       /\ err \in {ErrTruncatedInput, ErrDataUnitTooShort, ErrNil}
       /\ err # ErrUnreachable

C5_Witness ==
    /\ LastOp = "ReadFrom"
    /\ input = <<117>>
    /\ err = ErrDataUnitTooShort

\* C6 (as stated): decoding an input whose header byte is 0x02 succeeds and
\* yields unnumbered-control, sequence_number 0, control 2, consuming only
\* the header byte.
C6_ScenarioA_0x02 ==
    (LastOp = "ReadFrom" /\ Len(input) >= 1 /\ input[1] = 2)
    => /\ err = ErrNil
       /\ tpdu.PacketType = UnnumberedControlPacket
       /\ tpdu.SeqNumber = 0
       /\ tpdu.Control = 2
       /\ stream = Tail(input)

\* C6 (amended): decoding an input whose header byte is 0x82 (0b10000010)
\* succeeds and yields unnumbered-control, sequence_number 0, control 2,
\* consuming only the header byte.
C6_ScenarioA ==
    (LastOp = "ReadFrom" /\ Len(input) >= 1 /\ input[1] = 130)
    => /\ err = ErrNil
       /\ tpdu.PacketType = UnnumberedControlPacket
       /\ tpdu.SeqNumber = 0
       /\ tpdu.Control = 2
       /\ stream = Tail(input)

C6_Witness ==
    /\ LastOp = "ReadFrom"
    /\ input = <<130, 101, 171>>
    /\ stream = <<101, 171>>
    /\ tpdu.Control = 2

\* C7 (as stated): decoding the bytes [0x8D, 0x65] succeeds and yields
\* numbered-data, sequence_number 13, service_code 5, payload [0x25].
C7_ScenarioB_0x8D ==
    (LastOp = "ReadFrom" /\ input = <<141, 101>>)
    => /\ err = ErrNil
       /\ tpdu.PacketType = NumberedDataPacket
       /\ tpdu.SeqNumber = 13
       /\ tpdu.Info = 5
       /\ tpdu.Data = <<37>>

\* C7 (amended): decoding the bytes [0x75, 0x65] (0b01110101, 0b01100101)
\* succeeds and yields numbered-data, sequence_number 13, service_code 5,
\* payload [0x25].
C7_ScenarioB ==
    (LastOp = "ReadFrom" /\ input = <<117, 101>>)
    => /\ err = ErrNil
       /\ tpdu.PacketType = NumberedDataPacket
       /\ tpdu.SeqNumber = 13
       /\ tpdu.Info = 5
       /\ tpdu.Data = <<37>>
       /\ stream = <<>>

C7_Witness ==
    /\ LastOp = "ReadFrom"
    /\ input = <<117, 101>>
    /\ tpdu.Info = 5
    /\ tpdu.Data = <<37>>

\* C8: for every TPDU value, WriteTo emits a header whose bits 7-6 are
\* PacketType mod 4, at least one continuation byte when those bits denote a
\* data variant and exactly one byte when they denote a control variant, and
\* ReadFrom on the emitted bytes succeeds with packet_kind = PacketType mod 4.
C8_EncoderOutputDecodable ==
    RoundTrip
    => /\ HeaderKind(wire[1]) = sent.PacketType % 4
       /\ HeaderKind(wire[1]) \in {0, 1} => Len(wire) >= 2
       /\ HeaderKind(wire[1]) \in {2, 3} => Len(wire) = 1
       /\ err = ErrNil
       /\ tpdu.PacketType = sent.PacketType % 4

\* C9: for a control-variant header followed by any trailing bytes, ReadFrom
\* consumes exactly the header byte and returns control = header bits 1-0,
\* service_code 0 and an empty payload whatever the trailing bytes and the
\* record's previous contents; for a data-variant header it consumes every
\* remaining byte.
C9_ControlConsumesHeaderOnly ==
    (LastOp = "ReadFrom" /\ Len(input) >= 1)
    => /\ HeaderKind(input[1]) \in {2, 3}
            => /\ err = ErrNil
               /\ stream = Tail(input)
               /\ tpdu = TPDU(HeaderKind(input[1]), (input[1] \div 4) % 16,
                              input[1] % 4, 0, <<>>)
       /\ HeaderKind(input[1]) \in {0, 1} => stream = <<>>

C9_Witness ==
    /\ LastOp = "ReadFrom"
    /\ Len(input) = MaxLen + 1
    /\ HeaderKind(input[1]) = 3
    /\ stream = Tail(input)
    /\ prev.Info # 0 /\ prev.Data # <<>>
    /\ tpdu.Info = 0 /\ tpdu.Data = <<>>

\* C10: decoding a one-byte control input or a two-byte data input and
\* encoding the result reproduces the input bytes; for data inputs of three
\* or more bytes the re-encoded bytes are one byte shorter than the input.
C10_WireRoundTrip ==
    (WireTrip /\ Len(input) >= 1)
    => /\ (Len(input) = 1 /\ HeaderKind(input[1]) \in {2, 3}) => wire = input
       /\ (Len(input) = 2 /\ HeaderKind(input[1]) \in {0, 1}) => wire = input
       /\ (Len(input) >= 3 /\ HeaderKind(input[1]) \in {0, 1})
            => (Len(wire) = Len(input) - 1 /\ wire # input)

C10_Witness ==
    /\ WireTrip
    /\ input = <<117, 255>>
    /\ wire = input

====
